---- MODULE Spec2Model ----
(***************************************************************************)
(* Video-clip transforms of src/datasets/utils/transforms.py:              *)
(* Compose, ToTensor, RandomHorizontalFlip, Scale, RandomCrop.             *)
(*                                                                         *)
(* A frame is a record [rep, ndim, px]: rep is the Python class of the     *)
(* frame ("ndarray", "PIL", or "other" for anything else), ndim the number *)
(* of array axes, px the pixels as px[y][x][c] (1-based).  A value handed  *)
(* to or returned by a transform is a record [kind, frames, data, err]:    *)
(* a list of frames, a torch tensor (data[c][t][y][x], each element a      *)
(* fraction <<numerator, denominator>>), or a raised exception.            *)
(* The process-global generator of the random module is the counter rng    *)
(* (how many numbers have been drawn from it); the numbers drawn by the    *)
(* last call are kept in draws.                                            *)
(***************************************************************************)
EXTENDS Integers, Sequences, FiniteSets, TLC

VARIABLES clip, op, out, draws, log, trace, rng, pc

vars == <<clip, op, out, draws, log, trace, rng, pc>>

\* Bounds of the model.
MaxT == 2
MaxH == 2
MaxW == 2
MaxCompose == 2
\* random.random() is drawn from {0, 1/RngRes, ..., (RngRes-1)/RngRes}.
RngRes == 2

\* Program constants.
MaxPixel == 255
DefaultChannelNb == 3

Min(a, b) == IF a < b THEN a ELSE b

----------------------------------------------------------------------------
\* Values

ClipV(frames) == [kind |-> "clip", frames |-> frames, data |-> <<>>, err |-> "none"]
TensorV(data) == [kind |-> "tensor", frames |-> <<>>, data |-> data, err |-> "none"]
Raise(e) == [kind |-> "error", frames |-> <<>>, data |-> <<>>, err |-> e]

OtherFrame == [rep |-> "other", ndim |-> 0, px |-> <<>>]

\* len(clip): a list of frames, or a tensor (its first axis).
Length(v) == IF v.kind = "clip" THEN Len(v.frames) ELSE Len(v.data)

\* clip[0]: a frame, or a slice of a tensor (neither ndarray nor PIL image).
Item0(v) == IF v.kind = "clip" THEN v.frames[1] ELSE OtherFrame

\* for img in clip
Items(v) == IF v.kind = "clip" THEN v.frames ELSE [i \in 1..Len(v.data) |-> OtherFrame]

IsNdarray(img) == img.rep = "ndarray"
IsPIL(img) == img.rep = "PIL"

Height(img) == Len(img.px)
Width(img) == Len(img.px[1])
Channels(img) == Len(img.px[1][1])

\* ndarray.shape
shape(img) ==
    IF img.ndim = 3 THEN <<Height(img), Width(img), Channels(img)>>
    ELSE <<Height(img), Width(img)>>

\* PIL.Image.size
size(img) == <<Width(img), Height(img)>>

Draw(fn, a, b, v) == [fn |-> fn, a |-> a, b |-> b, v |-> v]
LibCall(fn, idx, sz, filter) == [fn |-> fn, idx |-> idx, size |-> sz, filter |-> filter]
Outcome(val, drawn, calls) == [val |-> val, draws |-> drawn, log |-> calls]

----------------------------------------------------------------------------
\* RandomHorizontalFlip

Mirror(img) ==
    [img EXCEPT !.px = [y \in 1..Height(img) |->
        [x \in 1..Width(img) |-> img.px[y][Width(img) + 1 - x]]]]

\* Faulty variant of np_fliplr: flips top-bottom (np.flipud).
np_flipud(img) ==
    [img EXCEPT !.px = [y \in 1..Height(img) |-> img.px[Height(img) + 1 - y]]]

np_fliplr(img) == Mirror(img)

PIL_transpose_FLIP_LEFT_RIGHT(img) == Mirror(img)

\* r is the number random.random() returns, in units of 1/RngRes.
RandomHorizontalFlip(c, r) ==
    LET drawn == <<Draw("random", 0, RngRes, r)>>
        n == Length(c)
    IN  IF 2 * r < RngRes
        THEN IF n = 0 THEN Outcome(Raise("IndexError"), drawn, <<>>)
             ELSE IF IsNdarray(Item0(c))
             THEN Outcome(ClipV([t \in 1..n |-> np_fliplr(Items(c)[t])]), drawn,
                          [t \in 1..n |-> LibCall("np.fliplr", t, <<>>, "none")])
             ELSE IF IsPIL(Item0(c))
             THEN Outcome(ClipV([t \in 1..n |-> PIL_transpose_FLIP_LEFT_RIGHT(Items(c)[t])]),
                          drawn,
                          [t \in 1..n |-> LibCall("PIL.transpose", t, <<>>, "FLIP_LEFT_RIGHT")])
             ELSE Outcome(Raise("TypeError"), drawn, <<>>)
        ELSE Outcome(c, drawn, <<>>)

RandomHorizontalFlipCalls(c) == {RandomHorizontalFlip(c, r) : r \in 0..(RngRes - 1)}

----------------------------------------------------------------------------
\* Scale

\* Source index (1-based) that cv2.resize samples for destination index d.
cv2_src(d, dn, sn) == Min(((d - 1) * sn) \div dn, sn - 1) + 1

\* Source index (1-based) that PIL's resize samples for destination index d.
PIL_src(d, dn, sn) == Min(((2 * d - 1) * sn) \div (2 * dn), sn - 1) + 1

\* cv2.resize(img, (w, h), interpolation): the result has h rows and w
\* columns; an image of one channel comes back without its channel axis.
\* The model keeps, for either filter, the source sample nearest to each
\* destination pixel; which filter was asked for is recorded in log.
cv2_resize(img, sz, inter) ==
    [rep |-> "ndarray",
     ndim |-> IF img.ndim = 3 /\ Channels(img) > 1 THEN 3 ELSE 2,
     px |-> [y \in 1..sz[2] |-> [x \in 1..sz[1] |->
                img.px[cv2_src(y, sz[2], Height(img))][cv2_src(x, sz[1], Width(img))]]]]

\* img.resize((w, h), filter)
PIL_resize(img, sz, filter) ==
    [rep |-> "PIL",
     ndim |-> 3,
     px |-> [y \in 1..sz[2] |-> [x \in 1..sz[1] |->
                img.px[PIL_src(y, sz[2], Height(img))][PIL_src(x, sz[1], Width(img))]]]]

np_inter(interpolation) ==
    IF interpolation = "bilinear" THEN "INTER_LINEAR" ELSE "INTER_NEAREST"

\* Faulty variant of pil_inter: the mapping of the image branch made the
\* same as that of the array branch.
pil_inter_symmetric(interpolation) ==
    IF interpolation = "bilinear" THEN "BILINEAR" ELSE "NEAREST"

pil_inter(interpolation) ==
    IF interpolation = "bilinear" THEN "NEAREST" ELSE "BILINEAR"

\* Faulty variant of Scale: the first frame is left out of the result.
ScaleDropsFrame(c, sz, interpolation) ==
    LET n == Length(c)
    IN  IF n = 0 THEN Outcome(Raise("IndexError"), <<>>, <<>>)
        ELSE IF IsNdarray(Item0(c))
        THEN Outcome(ClipV([t \in 1..(n - 1) |->
                        cv2_resize(Items(c)[t + 1], sz, np_inter(interpolation))]),
                     <<>>,
                     [t \in 1..(n - 1) |-> LibCall("cv2.resize", t + 1, sz, np_inter(interpolation))])
        ELSE IF IsPIL(Item0(c))
        THEN Outcome(ClipV([t \in 1..(n - 1) |->
                        PIL_resize(Items(c)[t + 1], sz, pil_inter(interpolation))]),
                     <<>>,
                     [t \in 1..(n - 1) |-> LibCall("PIL.resize", t + 1, sz, pil_inter(interpolation))])
        ELSE Outcome(Raise("TypeError"), <<>>, <<>>)

Scale(c, sz, interpolation) ==
    LET n == Length(c)
    IN  IF n = 0 THEN Outcome(Raise("IndexError"), <<>>, <<>>)
        ELSE IF IsNdarray(Item0(c))
        THEN Outcome(ClipV([t \in 1..n |-> cv2_resize(Items(c)[t], sz, np_inter(interpolation))]),
                     <<>>,
                     [t \in 1..n |-> LibCall("cv2.resize", t, sz, np_inter(interpolation))])
        ELSE IF IsPIL(Item0(c))
        THEN Outcome(ClipV([t \in 1..n |-> PIL_resize(Items(c)[t], sz, pil_inter(interpolation))]),
                     <<>>,
                     [t \in 1..n |-> LibCall("PIL.resize", t, sz, pil_inter(interpolation))])
        ELSE Outcome(Raise("TypeError"), <<>>, <<>>)

----------------------------------------------------------------------------
\* RandomCrop

\* Faulty variant of ndarray_slice: the offsets applied to the wrong axes,
\* img[x1:x1 + h, y1:y1 + w, :].
ndarray_slice_swapped(img, y1, h, x1, w) ==
    [img EXCEPT !.px = [y \in 1..(Min(x1 + h, Height(img)) - x1) |->
        [x \in 1..(Min(y1 + w, Width(img)) - y1) |-> img.px[x1 + y][y1 + x]]]]

\* img[y1:y1 + h, x1:x1 + w, :] (a slice stops at the array's edge).
ndarray_slice(img, y1, h, x1, w) ==
    [img EXCEPT !.px = [y \in 1..(Min(y1 + h, Height(img)) - y1) |->
        [x \in 1..(Min(x1 + w, Width(img)) - x1) |-> img.px[y1 + y][x1 + x]]]]

\* img.crop((x1, y1, x2, y2)): the box, filled with zeros outside the image.
PIL_crop(img, box) ==
    [img EXCEPT !.px = [y \in 1..(box[4] - box[2]) |-> [x \in 1..(box[3] - box[1]) |->
        IF box[2] + y <= Height(img) /\ box[1] + x <= Width(img)
        THEN img.px[box[2] + y][box[1] + x]
        ELSE [k \in 1..Channels(img) |-> 0]]]]

\* random.randint(a, b): the values it can return.
randint(a, b) == a..b

\* Lines 152-165: the exception raised before any number is drawn, or "none".
RandomCropCheck(c, sz) ==
    LET h == sz[1]
        w == sz[2]
    IN  IF Length(c) = 0 THEN "IndexError"
        ELSE IF IsNdarray(Item0(c))
        THEN IF Item0(c).ndim # 3 THEN "ValueError"
             ELSE IF w > shape(Item0(c))[2] \/ h > shape(Item0(c))[1] THEN "ValueError"
             ELSE "none"
        ELSE IF IsPIL(Item0(c))
        THEN IF w > size(Item0(c))[1] \/ h > size(Item0(c))[2] THEN "ValueError"
             ELSE "none"
        ELSE "TypeError"

\* Lines 167-176 with the two numbers drawn being x1 and y1.
RandomCropAt(c, sz, x1, y1) ==
    LET h == sz[1]
        w == sz[2]
        n == Length(c)
        im_w == Width(Item0(c))
        im_h == Height(Item0(c))
        drawn == <<Draw("randint", 0, im_w - w, x1), Draw("randint", 0, im_h - h, y1)>>
    IN  IF IsNdarray(Item0(c))
        THEN IF \E t \in 1..n : Items(c)[t].ndim # 3
             THEN Outcome(Raise("IndexError"), drawn, <<>>)
             ELSE Outcome(ClipV([t \in 1..n |-> ndarray_slice(Items(c)[t], y1, h, x1, w)]),
                          drawn,
                          [t \in 1..n |-> LibCall("ndarray.slice", t, <<x1, y1, x1 + w, y1 + h>>, "none")])
        ELSE Outcome(ClipV([t \in 1..n |-> PIL_crop(Items(c)[t], <<x1, y1, x1 + w, y1 + h>>)]),
                     drawn,
                     [t \in 1..n |-> LibCall("PIL.crop", t, <<x1, y1, x1 + w, y1 + h>>, "none")])

\* Faulty variant of RandomCrop: x1 is drawn before the size is validated.
RandomCropDrawFirst(c, sz) ==
    IF RandomCropCheck(c, sz) = "none"
    THEN {RandomCropAt(c, sz, x1, y1) :
            x1 \in randint(0, Width(Item0(c)) - sz[2]),
            y1 \in randint(0, Height(Item0(c)) - sz[1])}
    ELSE IF Length(c) > 0 /\ (IsNdarray(Item0(c)) \/ IsPIL(Item0(c))) /\ Item0(c).ndim = 3
              /\ sz[2] <= Width(Item0(c))
    THEN {Outcome(Raise(RandomCropCheck(c, sz)),
                  <<Draw("randint", 0, Width(Item0(c)) - sz[2], x1)>>, <<>>) :
            x1 \in randint(0, Width(Item0(c)) - sz[2])}
    ELSE {Outcome(Raise(RandomCropCheck(c, sz)), <<>>, <<>>)}

RandomCrop(c, sz) ==
    IF RandomCropCheck(c, sz) # "none"
    THEN {Outcome(Raise(RandomCropCheck(c, sz)), <<>>, <<>>)}
    ELSE {RandomCropAt(c, sz, x1, y1) :
            x1 \in randint(0, Width(Item0(c)) - sz[2]),
            y1 \in randint(0, Height(Item0(c)) - sz[1])}

----------------------------------------------------------------------------
\* ToTensor

\* img.transpose(2, 0, 1): the array as a[c][y][x].
convert_img(img) ==
    [k \in 1..Channels(img) |-> [y \in 1..Height(img) |-> [x \in 1..Width(img) |->
        img.px[y][x][k]]]]

\* a[:, :, ::-1]: the last axis reversed.
reverse_last(a) ==
    [k \in 1..Len(a) |-> [y \in 1..Len(a[k]) |-> [x \in 1..Len(a[k][y]) |->
        a[k][y][Len(a[k][y]) + 1 - x]]]]

\* An axis of length m can be assigned to an axis of length n.
Broadcasts(m, n) == m = n \/ m = 1

\* Faulty variant of div: the division left out.
div_missing(v, d) == <<v, 1>>

\* tensor.float().div(d), element by element.
div(v, d) == <<v, d>>

\* Faulty variant of ToTensorCheck: the assertion on the channel count
\* left out.
ToTensorCheckNoAssert(c, channel_nb) ==
    IF Length(c) = 0 THEN "IndexError"
    ELSE IF IsNdarray(Item0(c))
    THEN IF Item0(c).ndim # 3 THEN "ValueError" ELSE "none"
    ELSE IF IsPIL(Item0(c)) THEN "none"
    ELSE "TypeError"

\* Lines 40-47: the exception raised while retrieving the shape, or "none".
ToTensorCheck(c, channel_nb) ==
    IF Length(c) = 0 THEN "IndexError"
    ELSE IF IsNdarray(Item0(c))
    THEN IF Item0(c).ndim # 3 THEN "ValueError"
         ELSE IF shape(Item0(c))[3] # channel_nb THEN "AssertionError"
         ELSE "none"
    ELSE IF IsPIL(Item0(c)) THEN "none"
    ELSE "TypeError"

\* Lines 53-61 for one frame: the exception raised, or "none".
ToTensorFrameCheck(img, channel_nb, h, w) ==
    IF ~IsNdarray(img) /\ ~IsPIL(img) THEN "TypeError"
    ELSE IF img.ndim # 3 THEN "ValueError"
    ELSE IF ~(Broadcasts(Channels(img), channel_nb) /\ Broadcasts(Height(img), h)
              /\ Broadcasts(Width(img), w)) THEN "ValueError"
    ELSE "none"

ToTensor(c, channel_nb) ==
    LET n == Length(c)
        h == Height(Item0(c))
        w == Width(Item0(c))
        bad == {t \in 1..n : ToTensorFrameCheck(Items(c)[t], channel_nb, h, w) # "none"}
        first == CHOOSE t \in bad : \A u \in bad : t <= u
        img(t) == reverse_last(convert_img(Items(c)[t]))
        at(a, k, y, x) == a[IF Len(a) = 1 THEN 1 ELSE k]
                           [IF Len(a[1]) = 1 THEN 1 ELSE y]
                           [IF Len(a[1][1]) = 1 THEN 1 ELSE x]
    IN  IF ToTensorCheck(c, channel_nb) # "none"
        THEN Outcome(Raise(ToTensorCheck(c, channel_nb)), <<>>, <<>>)
        ELSE IF bad # {}
        THEN Outcome(Raise(ToTensorFrameCheck(Items(c)[first], channel_nb, h, w)), <<>>, <<>>)
        ELSE Outcome(TensorV([k \in 1..channel_nb |-> [t \in 1..n |-> [y \in 1..h |->
                        [x \in 1..w |-> div(at(img(t), k, y, x), MaxPixel)]]]]),
                     <<>>, <<>>)

----------------------------------------------------------------------------
\* Transforms and Compose

Flip == [name |-> "RandomHorizontalFlip", size |-> <<>>, interpolation |-> "", channel_nb |-> 0]
ScaleT(sz, interpolation) ==
    [name |-> "Scale", size |-> sz, interpolation |-> interpolation, channel_nb |-> 0]
CropT(sz) == [name |-> "RandomCrop", size |-> sz, interpolation |-> "", channel_nb |-> 0]
ToTensorT(channel_nb) ==
    [name |-> "ToTensor", size |-> <<>>, interpolation |-> "", channel_nb |-> channel_nb]

\* t(clip): every outcome the call can have.
Call(t, c) ==
    CASE t.name = "RandomHorizontalFlip" -> RandomHorizontalFlipCalls(c)
      [] t.name = "Scale" -> {Scale(c, t.size, t.interpolation)}
      [] t.name = "RandomCrop" -> RandomCrop(c, t.size)
      [] t.name = "ToTensor" -> {ToTensor(c, t.channel_nb)}

Invocation(t, c) == [t |-> t, arg |-> c]

\* The loop of Compose.__call__ from transform i on; acc is the clip so far
\* with the draws, library calls and invocations made so far.  An exception
\* leaves the loop.
RECURSIVE ComposeLoop(_, _, _)
ComposeLoop(transforms, i, acc) ==
    IF i > Len(transforms) \/ acc.val.kind = "error" THEN {acc}
    ELSE UNION {ComposeLoop(transforms, i + 1,
                    [val |-> r.val,
                     draws |-> acc.draws \o r.draws,
                     log |-> acc.log \o r.log,
                     trace |-> Append(acc.trace, Invocation(transforms[i], acc.val))]) :
                r \in Call(transforms[i], acc.val)}

\* Faulty variant of Compose: the list applied last to first.
ComposeReversed(transforms, c) ==
    ComposeLoop([i \in 1..Len(transforms) |-> transforms[Len(transforms) + 1 - i]], 1,
                [val |-> c, draws |-> <<>>, log |-> <<>>, trace |-> <<>>])

Compose(transforms, c) ==
    ComposeLoop(transforms, 1, [val |-> c, draws |-> <<>>, log |-> <<>>, trace |-> <<>>])

----------------------------------------------------------------------------
\* The clips a caller hands over, and the configurations of the transforms

\* Synthetic pixel contents: all 0, all MaxPixel, or a different value at
\* every (frame, row, column, channel).
Patterns == {"zero", "full", "coded"}

PixelOf(pat, t, y, x, k) ==
    CASE pat = "zero" -> 0
      [] pat = "full" -> MaxPixel
      [] pat = "coded" -> (k + 4 * ((x - 1) + MaxW * ((y - 1) + MaxH * (t - 1)))) % (MaxPixel + 1)

MkFrame(rep, t, h, w, c, pat) ==
    [rep |-> rep, ndim |-> 3,
     px |-> [y \in 1..h |-> [x \in 1..w |-> [k \in 1..c |-> PixelOf(pat, t, y, x, k)]]]]

\* Channel counts of the frames: arrays of 1, 3 or 4 channels, RGB and RGBA images.
ChannelCounts(rep) == IF rep = "ndarray" THEN {1, 3, 4} ELSE {3, 4}

\* Frames of one clip share representation, height and width; the last
\* frame of a clip may have a channel count c2 of its own.
Clips ==
    {ClipV(<<>>)}
    \cup {ClipV([t \in 1..n |-> OtherFrame]) : n \in 1..MaxT}
    \cup UNION {{ClipV([t \in 1..n |->
                    MkFrame(rep, t, h, w, IF t = n /\ n > 1 THEN c2 ELSE c, pat)]) :
                    n \in 1..MaxT, h \in 1..MaxH, w \in 1..MaxW,
                    c \in ChannelCounts(rep), c2 \in ChannelCounts(rep), pat \in Patterns} :
                rep \in {"ndarray", "PIL"}}

\* Scale(size, interpolation): size is (width, height).
ScaleSizes == {<<1, 1>>, <<2, 1>>, <<1, 3>>}
Interpolations == {"nearest", "bilinear", "bicubic"}

\* RandomCrop(size): size is (h, w).
CropSizes == (1..(MaxH + 1)) \X (1..(MaxW + 1))

\* ToTensor(channel_nb)
ChannelNbs == {DefaultChannelNb, 4}

\* Compose(transforms)
ComposeTransforms ==
    {Flip, ScaleT(<<2, 1>>, "bilinear"), CropT(<<1, 1>>), CropT(<<1, 2>>),
     ToTensorT(DefaultChannelNb)}
ComposeLists == UNION {[1..n -> ComposeTransforms] : n \in 0..MaxCompose}

----------------------------------------------------------------------------
\* The state machine: a caller builds a clip and invokes one callable on it

NoValue == [kind |-> "none", frames |-> <<>>, data |-> <<>>, err |-> "none"]

Init ==
    /\ clip \in Clips
    /\ op = [name |-> "none", transforms |-> <<>>]
    /\ out = NoValue
    /\ draws = <<>>
    /\ log = <<>>
    /\ trace = <<>>
    /\ rng = 0
    /\ pc = "ready"

\* The callable o returned or raised r, having made the invocations tr.
Return(o, r, tr) ==
    /\ op' = o
    /\ out' = r.val
    /\ draws' = r.draws
    /\ log' = r.log
    /\ trace' = tr
    /\ rng' = rng + Len(r.draws)
    /\ pc' = IF r.val.kind = "error" THEN "raised" ELSE "returned"
    /\ UNCHANGED clip

Direct(t) == [name |-> t.name, transforms |-> <<t>>]

CallRandomHorizontalFlip ==
    /\ pc = "ready"
    /\ \E r \in RandomHorizontalFlipCalls(clip) :
          Return(Direct(Flip), r, <<Invocation(Flip, clip)>>)

CallScale ==
    /\ pc = "ready"
    /\ \E sz \in ScaleSizes, i \in Interpolations :
          Return(Direct(ScaleT(sz, i)), Scale(clip, sz, i), <<Invocation(ScaleT(sz, i), clip)>>)

CallRandomCrop ==
    /\ pc = "ready"
    /\ \E sz \in CropSizes : \E r \in RandomCrop(clip, sz) :
          Return(Direct(CropT(sz)), r, <<Invocation(CropT(sz), clip)>>)

CallToTensor ==
    /\ pc = "ready"
    /\ \E n \in ChannelNbs :
          Return(Direct(ToTensorT(n)), ToTensor(clip, n), <<Invocation(ToTensorT(n), clip)>>)

CallCompose ==
    /\ pc = "ready"
    /\ \E ts \in ComposeLists : \E r \in Compose(ts, clip) :
          Return([name |-> "Compose", transforms |-> ts], r, r.trace)

Next ==
    \/ CallRandomHorizontalFlip
    \/ CallScale
    \/ CallRandomCrop
    \/ CallToTensor
    \/ CallCompose

Spec == Init /\ [][Next]_vars

----------------------------------------------------------------------------
\* Properties

Called(name) == pc # "ready" /\ op.name = name

\* The clip is a non-empty list of arrays or of images.
Supported(c) == Length(c) > 0 /\ (IsNdarray(Item0(c)) \/ IsPIL(Item0(c)))

PixelValues(img) ==
    UNION {UNION {{img.px[y][x][k] : k \in 1..Len(img.px[y][x])} :
                  x \in 1..Len(img.px[y])} : y \in 1..Len(img.px)}

\* The size of a RandomCrop fits the first frame of the clip.
Fits(sz, c) == sz[1] <= Height(Item0(c)) /\ sz[2] <= Width(Item0(c))

\* C1: RandomCrop with a size (h, w) that fits draws x1 from 0..im_w - w and
\* y1 from 0..im_h - h, every value of either range being possible, and
\* output frame t is the h x w window of input frame t at (x1, y1), the same
\* offsets for every frame.
C1_RandomCropWindow ==
    /\ (pc = "ready" /\ Supported(clip)) =>
          \A sz \in {s \in CropSizes : Fits(s, clip)} :
             \A x1 \in 0..(Width(Item0(clip)) - sz[2]), y1 \in 0..(Height(Item0(clip)) - sz[1]) :
                ENABLED (/\ CallRandomCrop
                         /\ op' = Direct(CropT(sz))
                         /\ draws' = <<Draw("randint", 0, Width(Item0(clip)) - sz[2], x1),
                                       Draw("randint", 0, Height(Item0(clip)) - sz[1], y1)>>)
    /\ (Called("RandomCrop") /\ Supported(clip) /\ Fits(op.transforms[1].size, clip)) =>
          LET h == op.transforms[1].size[1]
              w == op.transforms[1].size[2]
              im_h == Height(Item0(clip))
              im_w == Width(Item0(clip))
          IN  /\ out.kind = "clip"
              /\ Len(draws) = 2
              /\ draws[1] = Draw("randint", 0, im_w - w, draws[1].v)
              /\ draws[2] = Draw("randint", 0, im_h - h, draws[2].v)
              /\ draws[1].v \in 0..(im_w - w)
              /\ draws[2].v \in 0..(im_h - h)
              /\ Len(out.frames) = Len(clip.frames)
              /\ \A t \in 1..Len(clip.frames) :
                    /\ Height(out.frames[t]) = h
                    /\ Width(out.frames[t]) = w
                    /\ out.frames[t].rep = clip.frames[t].rep
                    /\ \A y \in 1..h, x \in 1..w :
                          out.frames[t].px[y][x] =
                             clip.frames[t].px[draws[2].v + y][draws[1].v + x]

C1_Witness ==
    /\ Called("RandomCrop")
    /\ out.kind = "clip"
    /\ Len(clip.frames) >= 2
    /\ clip.frames[1].px # clip.frames[2].px
    /\ draws[1].v > 0 /\ draws[1].v = draws[1].b
    /\ draws[2].v > 0 /\ draws[2].v = draws[2].b

\* C2: the tensor ToTensor returns holds at (c, t, y, x) the value of input
\* frame t at row y, column x, channel C + 1 - c (1-based), over 255: the
\* channels reversed, rows and columns in place.
C2_ToTensorReversesChannels ==
    (Called("ToTensor") /\ out.kind = "tensor") =>
       \A k \in 1..Len(out.data) : \A t \in 1..Len(out.data[k]) :
          \A y \in 1..Len(out.data[k][t]) : \A x \in 1..Len(out.data[k][t][y]) :
             Channels(clip.frames[t]) = Len(out.data) =>
                out.data[k][t][y][x] =
                   <<clip.frames[t].px[y][x][Len(out.data) + 1 - k], MaxPixel>>

\* C3: RandomHorizontalFlip draws one number; when it returns, either the
\* number is below 1/2 and every output frame is the left-right mirror of
\* the input frame (same representation), or the number is at least 1/2 and
\* the clip returned is the input clip.
C3_FlipWholeClip ==
    Called("RandomHorizontalFlip") =>
       /\ Len(draws) = 1
       /\ draws[1].fn = "random"
       /\ rng = 1
       /\ Supported(clip) => out.kind = "clip"
       /\ out.kind # "error" =>
             \/ /\ 2 * draws[1].v < RngRes
                /\ out.kind = "clip"
                /\ Len(out.frames) = Len(clip.frames)
                /\ \A t \in 1..Len(clip.frames) :
                      /\ out.frames[t].rep = clip.frames[t].rep
                      /\ out.frames[t].ndim = clip.frames[t].ndim
                      /\ Height(out.frames[t]) = Height(clip.frames[t])
                      /\ \A y \in 1..Height(clip.frames[t]) :
                            /\ Len(out.frames[t].px[y]) = Width(clip.frames[t])
                            /\ \A x \in 1..Width(clip.frames[t]) :
                                  out.frames[t].px[y][x] =
                                     clip.frames[t].px[y][Width(clip.frames[t]) + 1 - x]
             \/ /\ 2 * draws[1].v >= RngRes
                /\ out = clip

C3_Witness ==
    /\ Called("RandomHorizontalFlip")
    /\ out.kind = "clip"
    /\ 2 * draws[1].v < RngRes
    /\ Len(clip.frames) >= 2
    /\ Width(clip.frames[1]) >= 2
    /\ Height(clip.frames[1]) >= 2
    /\ \A t \in 1..Len(clip.frames) : out.frames[t] # clip.frames[t]

\* C4: RandomHorizontalFlip raises TypeError on every call whose first frame
\* is neither an array nor an image, whatever number is drawn.
C4_FlipRejectsUnsupported ==
    (Called("RandomHorizontalFlip") /\ Length(clip) > 0 /\ ~Supported(clip)) =>
       out = Raise("TypeError")

\* C5: RandomCrop with h > im_h or w > im_w raises ValueError and draws no
\* number: the generator is where it was before the call.
C5_CropTooLarge ==
    (Called("RandomCrop") /\ Supported(clip) /\ ~Fits(op.transforms[1].size, clip)) =>
       /\ out = Raise("ValueError")
       /\ pc = "raised"
       /\ draws = <<>>
       /\ rng = 0

C5_Witness ==
    /\ Called("RandomCrop")
    /\ Supported(clip)
    /\ IsPIL(Item0(clip))
    /\ op.transforms[1].size = <<Height(Item0(clip)) + 1, Width(Item0(clip))>>
    /\ out.err = "ValueError"

\* C6 as stated: ToTensor raises AssertionError whenever some frame of the
\* clip, at any index, is an array whose channel count is not channel_nb.
C6_AssertsEveryFrame ==
    (Called("ToTensor") /\ Supported(clip)
       /\ \E t \in 1..Len(clip.frames) :
             IsNdarray(clip.frames[t]) /\ Channels(clip.frames[t]) # op.transforms[1].channel_nb) =>
       out = Raise("AssertionError")

\* C6 amended: ToTensor raises AssertionError, and returns no tensor,
\* whenever the first frame of the clip is an array whose channel count is
\* not channel_nb.
C6_AssertsFirstFrame ==
    (Called("ToTensor") /\ Length(clip) > 0 /\ IsNdarray(Item0(clip))
       /\ Channels(Item0(clip)) # op.transforms[1].channel_nb) =>
       /\ out = Raise("AssertionError")
       /\ pc = "raised"

C6_Witness ==
    /\ Called("ToTensor")
    /\ Supported(clip)
    /\ IsNdarray(Item0(clip))
    /\ Channels(Item0(clip)) = 4
    /\ op.transforms[1].channel_nb = DefaultChannelNb
    /\ out.err = "AssertionError"

\* The transforms of the callable invoked are applied one after the other,
\* each to what the one before returned.
Chained ==
    /\ Len(trace) <= Len(op.transforms)
    /\ \A i \in 1..Len(trace) :
          /\ trace[i].t = op.transforms[i]
          /\ trace[i].arg.kind # "error"
          /\ i = 1 => trace[i].arg = clip
          /\ i > 1 => trace[i].arg \in {r.val : r \in Call(op.transforms[i - 1], trace[i - 1].arg)}
    /\ Len(trace) > 0 =>
          out \in {r.val : r \in Call(trace[Len(trace)].t, trace[Len(trace)].arg)}
    /\ Len(trace) < Len(op.transforms) => out.kind = "error"

\* C7: Compose([]) returns the clip it is given; Compose([A, B]) invokes A on
\* the clip, then B on what A returned, and returns what B returns for the
\* same draws; whatever its length, the list is applied in order, each
\* transform once, to the result of the one before.
C7_ComposeFolds ==
    Called("Compose") =>
       /\ Chained
       /\ Len(op.transforms) = 0 =>
             out = clip /\ draws = <<>> /\ trace = <<>> /\ rng = 0
       /\ Len(op.transforms) = 2 =>
             \E ra \in Call(op.transforms[1], clip) :
                IF ra.val.kind = "error"
                THEN /\ out = ra.val
                     /\ draws = ra.draws
                     /\ trace = <<Invocation(op.transforms[1], clip)>>
                ELSE \E rb \in Call(op.transforms[2], ra.val) :
                        /\ out = rb.val
                        /\ draws = ra.draws \o rb.draws
                        /\ log = ra.log \o rb.log
                        /\ trace = <<Invocation(op.transforms[1], clip),
                                     Invocation(op.transforms[2], ra.val)>>

C7_Witness ==
    /\ Called("Compose")
    /\ Len(op.transforms) = 2
    /\ op.transforms[1].name = "RandomCrop"
    /\ op.transforms[2].name = "RandomHorizontalFlip"
    /\ out.kind = "clip"
    /\ Len(draws) = 3
    /\ 2 * draws[3].v < RngRes
    /\ Height(Item0(clip)) > Height(Item0(out))
    /\ Width(Item0(out)) >= 2
    /\ draws[2].v > 0
    /\ out.frames[1].px # Mirror(out.frames[1]).px

ClipToClip ==
    \A i \in 1..Len(op.transforms) :
       op.transforms[i].name \in {"RandomHorizontalFlip", "Scale", "RandomCrop"}

\* C9: a flip, a scale, a crop that fits, or a pipeline of these returns as
\* many frames as it was given, and frame t of the result holds values of
\* frame t of the input only.
C9_FrameCountPreserved ==
    (pc # "ready" /\ ClipToClip) =>
       /\ out.kind # "tensor"
       /\ out.kind = "clip" =>
             /\ Len(out.frames) = Len(clip.frames)
             /\ \A t \in 1..Len(clip.frames) :
                   PixelValues(out.frames[t]) \subseteq PixelValues(clip.frames[t])
       /\ (op.name # "Compose" /\ Supported(clip)
             /\ (op.name = "RandomCrop" => Fits(op.transforms[1].size, clip))) =>
             out.kind = "clip"

C9_Witness ==
    /\ Called("Compose")
    /\ Len(op.transforms) = 2
    /\ op.transforms[1].name = "Scale"
    /\ op.transforms[2].name = "RandomCrop"
    /\ out.kind = "clip"
    /\ Len(out.frames) = 2
    /\ PixelValues(out.frames[1]) # PixelValues(out.frames[2])

====
